---- MODULE Spec2Model ----
(***************************************************************************)
(* Model of the quality gate of the QA dashboard (dashboard.py): the       *)
(* parsers of the tool outputs, the percentage helper, compute_status, the *)
(* remark rules and update_overall_status.                                 *)
(*                                                                         *)
(* Text is modelled as a sequence of one-character strings, so that        *)
(* rstrip, strip and endswith are computed as Python computes them.        *)
(* Python's None is the empty sequence <<>>; an optional value x that is   *)
(* set is the one-element sequence <<x>>.                                  *)
(***************************************************************************)
EXTENDS Integers, Sequences, FiniteSets, TLC

VARIABLES
    lpc,        \* parse_linter_results: "scan" inside the for loop, "done" after return
    fin,        \* parse_linter_results: the lines of the file read so far
    source,     \* parse_linter_results: local `source`
    files,      \* parse_linter_results: local `files`
    passed,     \* parse_linter_results: local `passed`
    failed,     \* parse_linter_results: local `failed`
    total,      \* parse_linter_results: local `total`
    metric,     \* parse_linter_results: the returned dictionary, <<>> before the return
    rpc,        \* radon parsers: "loop", "done" (returned) or "error" (KeyError raised)
    tool,       \* radon parsers: "cc" (parse_cyclomatic_complexity) or "mi"
    data,       \* radon parsers: the ranks of the JSON records visited so far
    radon,      \* radon parsers: local `results`
    call,       \* a pure function called on its own: its name and arguments
    ret,        \* the value that call returned, <<>> before the call
    results,    \* the Results object: one map from repository to value per field
    code_coverage_threshold,    \* the run's coverage threshold
    repositories,   \* prepare_data_for_repositories: the list `repositories`
    code_quality_table_enabled, \* prepare_data_for_repositories: its argument
    ci_jobs_table_enabled,      \* prepare_data_for_repositories: its argument
    position,   \* prepare_data_for_repositories: how many repositories the loop took
    ppc         \* prepare_data_for_repositories: the statement that runs next

linterVars == <<lpc, fin, source, files, passed, failed, total, metric>>
radonVars == <<rpc, tool, data, radon>>
callVars == <<call, ret>>
gateVars == <<results, code_coverage_threshold>>
loopVars == <<repositories, code_quality_table_enabled, ci_jobs_table_enabled, position, ppc>>
vars == <<linterVars, radonVars, callVars, gateVars, loopVars>>

-----------------------------------------------------------------------------
(* Bounds of the model *)

\* longest tool log, in lines
MaxLines == 6
\* most rank records in one radon report
MaxBlocks == 3
\* largest pass or fail count given to percentage
MaxCount == 12
\* largest number of source files of a repository
MaxFiles == 2
\* largest number of ignored files given to compute_status
MaxIgnored == 1
\* longest tool log of a repository whose status is computed, in lines
MaxGateLines == 2
\* largest file count given to the coverage-of-files remarks
MaxCheckedFiles == 10
\* largest number of ignored files given to the coverage-of-files remarks
MaxIgnoredFiles == 2
\* lines of a dead code or common errors log
MaxToolLines == 4
\* source files of a repository that prepare_data_for_repositories processes
MaxRepoFiles == 1

-----------------------------------------------------------------------------
(* Text helpers: str.rstrip, str.strip, str.endswith *)

None == << >>

Whitespace == {" ", "\n"}

RECURSIVE RStrip(_)
RStrip(s) ==
    IF s = << >> THEN s
    ELSE IF s[Len(s)] \in Whitespace THEN RStrip(SubSeq(s, 1, Len(s) - 1))
    ELSE s

RECURSIVE LStrip(_)
LStrip(s) ==
    IF s = << >> THEN s
    ELSE IF s[1] \in Whitespace THEN LStrip(Tail(s))
    ELSE s

Strip(s) == LStrip(RStrip(s))

EndsWith(s, suffix) ==
    /\ Len(s) >= Len(suffix)
    /\ SubSeq(s, Len(s) - Len(suffix) + 1, Len(s)) = suffix

PySuffix == <<".", "p", "y">>
PassSuffix == <<" ", " ", " ", " ", "P", "a", "s", "s">>
FailSuffix == <<" ", " ", " ", " ", "F", "a", "i", "l">>

\* The lines a tool log is made of; each is read with its newline.
LineAPy == <<"a", ".", "p", "y", "\n">>
LineBPy == <<" ", "b", ".", "p", "y", "\n">>
LineCPy == <<"c", ".", "p", "y", " ", "\n">>
LinePass == <<" ", " ", " ", " ", "P", "a", "s", "s", "\n">>
LineFail == <<" ", " ", " ", " ", "F", "a", "i", "l", "\n">>

Lines == {LineAPy, LineBPy, LineCPy, LinePass, LineFail}

-----------------------------------------------------------------------------
(* percentage *)

Digit(d) == <<"0", "1", "2", "3", "4", "5", "6", "7", "8", "9">>[d + 1]

\* "{:d}" of a non-negative integer
RECURSIVE FormatInt(_)
FormatInt(n) ==
    IF n < 10 THEN <<Digit(n)>>
    ELSE FormatInt(n \div 10) \o <<Digit(n % 10)>>

\* "{:.0f}".format(n / d) for n >= 0, d > 0: the quotient rounded to the
\* nearest integer, a tie going to the even one
FormatFloat0(n, d) ==
    LET q == n \div d
        r == n % d
        rounded == IF 2 * r < d THEN q
                   ELSE IF 2 * r > d THEN q + 1
                   ELSE IF q % 2 = 0 THEN q ELSE q + 1
    IN  FormatInt(rounded)

\* percentage taken against the first part instead of the total
percentage_OverFirstPart(part1, part2) ==
    IF part1 = 0 THEN <<"0">>
    ELSE FormatFloat0(100 * part2, part1)

percentage(part1, part2) ==
    LET sum == part1 + part2
    IN  IF sum = 0 THEN <<"0">>
        ELSE FormatFloat0(100 * part2, sum)

\* progress_bar.progress_bar_class and progress_bar_width: display mappings
\* of one argument, kept as the term applied to that argument
progress_bar_class(p) == <<"progress_bar_class", p>>
progress_bar_width(p) == <<"progress_bar_width", p>>

-----------------------------------------------------------------------------
(* parse_linter_results *)

\* files[key] = value
Put(map, key, value) ==
    [k \in DOMAIN map \cup {key} |-> IF k = key THEN value ELSE map[k]]

\* the locals of parse_linter_results
LinterState == [source |-> source, files |-> files, passed |-> passed,
                failed |-> failed, total |-> total]

LinterStart == [source |-> None, files |-> << >>, passed |-> 0,
                failed |-> 0, total |-> 0]

OnFileMarker(st, line) == [st EXCEPT !.source = Strip(line)]

\* OnPass without the `if source:` test
OnPass_NoSourceTest(st) ==
    [st EXCEPT !.passed = @ + 1, !.total = @ + 1,
               !.files = Put(@, st.source, TRUE)]

\* OnPass counting a file once, however many markers it gets
OnPass_OncePerFile(st) ==
    IF st.source # None
    THEN IF st.source \in DOMAIN st.files
         THEN [st EXCEPT !.files = Put(@, st.source, TRUE)]
         ELSE [st EXCEPT !.passed = @ + 1, !.total = @ + 1,
                         !.files = Put(@, st.source, TRUE)]
    ELSE st

OnPass(st) ==
    IF st.source # None
    THEN [st EXCEPT !.passed = @ + 1, !.total = @ + 1,
                    !.files = Put(@, st.source, TRUE)]
    ELSE st

\* OnFail without `total += 1`
OnFail_NoTotal(st) ==
    IF st.source # None
    THEN [st EXCEPT !.failed = @ + 1,
                    !.files = Put(@, st.source, FALSE)]
    ELSE st

OnFail(st) ==
    IF st.source # None
    THEN [st EXCEPT !.failed = @ + 1, !.total = @ + 1,
                    !.files = Put(@, st.source, FALSE)]
    ELSE st

\* one iteration of `for line in fin`
ScanLine(st, raw) ==
    LET line == RStrip(raw)
        s1 == IF EndsWith(line, PySuffix) THEN OnFileMarker(st, line) ELSE st
        s2 == IF EndsWith(line, PassSuffix) THEN OnPass(s1) ELSE s1
        s3 == IF EndsWith(line, FailSuffix) THEN OnFail(s2) ELSE s2
    IN  s3

\* LinterResult with the progress bar computed from the share of failures
LinterResult_BarFromFailed(st) ==
    [display_results |-> st.files # << >>,
     files |-> st.files,
     total |-> st.total,
     passed |-> st.passed,
     failed |-> st.failed,
     passed_pct |-> percentage(st.failed, st.passed),
     failed_pct |-> percentage(st.passed, st.failed),
     progress_bar_class |-> progress_bar_class(percentage(st.passed, st.failed)),
     progress_bar_width |-> progress_bar_width(percentage(st.passed, st.failed))]

\* LinterResult with display_results set as soon as a file marker was seen
LinterResult_DisplayIfSource(st) ==
    [display_results |-> st.source # None,
     files |-> st.files,
     total |-> st.total,
     passed |-> st.passed,
     failed |-> st.failed,
     passed_pct |-> percentage(st.failed, st.passed),
     failed_pct |-> percentage(st.passed, st.failed),
     progress_bar_class |-> progress_bar_class(percentage(st.failed, st.passed)),
     progress_bar_width |-> progress_bar_width(percentage(st.failed, st.passed))]

\* the dictionary parse_linter_results returns
LinterResult(st) ==
    [display_results |-> st.files # << >>,
     files |-> st.files,
     total |-> st.total,
     passed |-> st.passed,
     failed |-> st.failed,
     passed_pct |-> percentage(st.failed, st.passed),
     failed_pct |-> percentage(st.passed, st.failed),
     progress_bar_class |-> progress_bar_class(percentage(st.failed, st.passed)),
     progress_bar_width |-> progress_bar_width(percentage(st.failed, st.passed))]

\* parse_linter_results on a whole log
RECURSIVE ScanLines(_, _)
ScanLines(st, log) ==
    IF log = << >> THEN st ELSE ScanLines(ScanLine(st, Head(log)), Tail(log))

parse_linter_results(log) == LinterResult(ScanLines(LinterStart, log))

LinterInit ==
    /\ lpc = "scan"
    /\ fin = << >>
    /\ source = LinterStart.source
    /\ files = LinterStart.files
    /\ passed = LinterStart.passed
    /\ failed = LinterStart.failed
    /\ total = LinterStart.total
    /\ metric = << >>

LinterIdle ==
    /\ lpc = "idle"
    /\ fin = << >>
    /\ source = None
    /\ files = << >>
    /\ passed = 0
    /\ failed = 0
    /\ total = 0
    /\ metric = << >>

\* the loop body on the next line of the file
ReadLine(raw) ==
    /\ lpc = "scan"
    /\ Len(fin) < MaxLines
    /\ LET st == ScanLine(LinterState, raw)
       IN  /\ source' = st.source
           /\ files' = st.files
           /\ passed' = st.passed
           /\ failed' = st.failed
           /\ total' = st.total
    /\ fin' = Append(fin, raw)
    /\ UNCHANGED <<lpc, metric, radonVars, callVars, gateVars, loopVars>>

\* end of file: the return statement
LinterReturn ==
    /\ lpc = "scan"
    /\ lpc' = "done"
    /\ metric' = <<LinterResult(LinterState)>>
    /\ UNCHANGED <<fin, source, files, passed, failed, total>>
    /\ UNCHANGED <<radonVars, callVars, gateVars, loopVars>>

-----------------------------------------------------------------------------
(* parse_cyclomatic_complexity and parse_maintainability_index *)

prepare_radon_results == [A |-> 0, B |-> 0, C |-> 0, D |-> 0, E |-> 0, F |-> 0]

\* the rank letters a report may carry; "G" stands for a letter no scale has
Ranks == {"A", "B", "C", "D", "E", "F", "G"}

cyclomatic_complexity_status(res) ==
    res["D"] = 0 /\ res["E"] = 0 /\ res["F"] = 0

\* the maintainability index judged on the cyclomatic-complexity scale
maintainability_index_status_SameScale(res) ==
    res["D"] = 0 /\ res["E"] = 0 /\ res["F"] = 0

maintainability_index_status(res) ==
    res["B"] = 0 /\ res["C"] = 0

radon_status(t, res) ==
    IF t = "cc" THEN cyclomatic_complexity_status(res)
    ELSE maintainability_index_status(res)

\* results["status"] = ...
WithStatus(res, status) ==
    [k \in DOMAIN res \cup {"status"} |-> IF k = "status" THEN status ELSE res[k]]

\* results[rank] += 1 raises KeyError for a key the dictionary lacks
HasKey(res, rank) == rank \in DOMAIN res

RadonInit ==
    /\ rpc = "loop"
    /\ tool \in {"cc", "mi"}
    /\ data = << >>
    /\ radon = prepare_radon_results

RadonIdle ==
    /\ rpc = "idle"
    /\ tool = "cc"
    /\ data = << >>
    /\ radon = prepare_radon_results

\* the loop body on the next record of the report: results[rank] += 1
CountRank(rank) ==
    /\ rpc = "loop"
    /\ Len(data) < MaxBlocks
    /\ data' = Append(data, rank)
    /\ IF HasKey(radon, rank)
       THEN /\ radon' = [radon EXCEPT ![rank] = @ + 1]
            /\ rpc' = rpc
       ELSE /\ rpc' = "error"
            /\ radon' = radon
    /\ UNCHANGED <<tool, linterVars, callVars, gateVars, loopVars>>

\* the report is exhausted: set the status and return
RadonReturn ==
    /\ rpc = "loop"
    /\ rpc' = "done"
    /\ radon' = WithStatus(radon, radon_status(tool, radon))
    /\ UNCHANGED <<tool, data, linterVars, callVars, gateVars, loopVars>>

\* a radon parser on a whole report of known ranks
RECURSIVE CountRanks(_, _)
CountRanks(res, report) ==
    IF report = << >> THEN res
    ELSE CountRanks([res EXCEPT ![Head(report)] = @ + 1], Tail(report))

parse_cyclomatic_complexity(report) ==
    LET res == CountRanks(prepare_radon_results, report)
    IN  WithStatus(res, cyclomatic_complexity_status(res))

parse_maintainability_index(report) ==
    LET res == CountRanks(prepare_radon_results, report)
    IN  WithStatus(res, maintainability_index_status(res))

-----------------------------------------------------------------------------
(* percentage called on its own *)

CallIdle ==
    /\ call = [fn |-> "none"]
    /\ ret = << >>

GateIdle ==
    /\ results = << >>
    /\ code_coverage_threshold = 0

\* prepare_data_for_repositories is not running
LoopIdle ==
    /\ repositories = << >>
    /\ code_quality_table_enabled = FALSE
    /\ ci_jobs_table_enabled = FALSE
    /\ position = 0
    /\ ppc = "none"

PercentageInit ==
    /\ call \in [fn : {"percentage"}, part1 : 0..MaxCount, part2 : 0..MaxCount]
    /\ ret = << >>

CallPercentage ==
    /\ call.fn = "percentage"
    /\ ret = << >>
    /\ ret' = <<percentage(call.part1, call.part2)>>
    /\ UNCHANGED <<call, linterVars, radonVars, gateVars, loopVars>>

-----------------------------------------------------------------------------
(* compute_status and the remark rules *)

\* unit_tests.unit_test_coverage_ok: an unknown coverage passes, a known one
\* passes when it reaches the threshold
unit_test_coverage_ok(unit_test_coverage, threshold) ==
    unit_test_coverage = None \/ unit_test_coverage[1] >= threshold

\* compute_status without the dead code and common errors conditions
compute_status_NoDeadCode(source_files, linter_checks_total, ignored_pylint_files, docstyle_checks_total, ignored_pydocstyle_files, linter_checks, docstyle_checks, unit_test_coverage, cyclomatic_complexity, maintainability_index, threshold, dead_code, common_errors) ==
    /\ source_files = linter_checks_total + ignored_pylint_files
    /\ source_files = docstyle_checks_total + ignored_pydocstyle_files
    /\ linter_checks["failed"] = 0
    /\ docstyle_checks["failed"] = 0
    /\ unit_test_coverage_ok(unit_test_coverage, threshold)
    /\ cyclomatic_complexity["status"]
    /\ maintainability_index["status"]

compute_status(source_files, linter_checks_total, ignored_pylint_files, docstyle_checks_total, ignored_pydocstyle_files, linter_checks, docstyle_checks, unit_test_coverage, cyclomatic_complexity, maintainability_index, threshold, dead_code, common_errors) ==
    /\ source_files = linter_checks_total + ignored_pylint_files
    /\ source_files = docstyle_checks_total + ignored_pydocstyle_files
    /\ linter_checks["failed"] = 0
    /\ docstyle_checks["failed"] = 0
    /\ unit_test_coverage_ok(unit_test_coverage, threshold)
    /\ cyclomatic_complexity["status"]
    /\ maintainability_index["status"]
    /\ dead_code["failed"] = 0
    /\ common_errors["failed"] = 0

\* A remark text is a sequence of pieces, "" the empty sequence and + the
\* concatenation; a piece is its format string followed by its arguments.
NoRemark == << >>
Remark(text) == <<(<<text>>)>>

\* remark_linter comparing the source files with the checked files alone
remark_linter_WithoutIgnored(source_files, linter_checks_total, ignored_pylint_files, display_results) ==
    IF ~display_results
    THEN Remark("<li>linter is not setup</li>")
    ELSE IF source_files # linter_checks_total
    THEN Remark("<li>not all source files are checked by linter</li>")
    ELSE NoRemark

remark_linter(source_files, linter_checks_total, ignored_pylint_files, display_results) ==
    IF ~display_results
    THEN Remark("<li>linter is not setup</li>")
    ELSE IF source_files # linter_checks_total + ignored_pylint_files
    THEN Remark("<li>not all source files are checked by linter</li>")
    ELSE NoRemark

remark_docstyle(source_files, docstyle_checks_total, ignored_pydocstyle_files, display_results) ==
    IF ~display_results
    THEN Remark("<li>docstyle checker is not setup</li>")
    ELSE IF source_files # docstyle_checks_total + ignored_pydocstyle_files
    THEN Remark("<li>not all source files are checked by pydocstyle</li>")
    ELSE NoRemark

remark_linter_vs_docstyle(linter_checks_total, ignored_pylint_files, docstyle_checks_total, ignored_pydocstyle_files) ==
    IF linter_checks_total + ignored_pylint_files
          # docstyle_checks_total + ignored_pydocstyle_files
    THEN <<(<<", linter checked {n1} files, but pydocstyle checked {n2} files",
              linter_checks_total, docstyle_checks_total>>)>>
    ELSE NoRemark

\* remark_unit_test_coverage that says nothing about an unknown coverage
remark_unit_test_coverage_SilentIfUnknown(unit_test_coverage, threshold) ==
    IF unit_test_coverage # None
    THEN IF ~unit_test_coverage_ok(unit_test_coverage, threshold)
         THEN Remark("<li>improve code coverage</li>")
         ELSE NoRemark
    ELSE NoRemark

remark_unit_test_coverage(unit_test_coverage, threshold) ==
    IF unit_test_coverage # None
    THEN IF ~unit_test_coverage_ok(unit_test_coverage, threshold)
         THEN Remark("<li>improve code coverage</li>")
         ELSE NoRemark
    ELSE Remark("<li>unit tests has not been setup</li>")

\* dead_code_remark that only reports a tool that is not set up
dead_code_remark_SetupOnly(dead_code) ==
    IF dead_code["display_results"]
    THEN NoRemark
    ELSE Remark("<li>setup dead code detection tool</li>")

\* dead_code_remark that asks to remove dead code whenever the tool ran
dead_code_remark_WheneverShown(dead_code) ==
    IF dead_code["display_results"]
    THEN Remark("<li>remove dead code</li>")
    ELSE Remark("<li>setup dead code detection tool</li>")

dead_code_remark(dead_code) ==
    IF dead_code["display_results"]
    THEN IF dead_code["failed"] # 0
         THEN Remark("<li>remove dead code</li>")
         ELSE NoRemark
    ELSE Remark("<li>setup dead code detection tool</li>")

common_errors_remark(common_errors) ==
    IF common_errors["display_results"]
    THEN IF common_errors["failed"] # 0
         THEN Remark("<li>fix common errors</li>")
         ELSE NoRemark
    ELSE Remark("<li>setup common errors detection tool</li>")

\* "<li>{n} file{s} ignored by ...</li>".format(n=n, s="s" if n > 1 else "")
IgnoredRemark(text, n) == <<(<<text, n, IF n > 1 THEN "s" ELSE "">>)>>

-----------------------------------------------------------------------------
(* update_overall_status *)

\* dict.get(key, default)
Get(dict, key, default) == IF key \in DOMAIN dict THEN dict[key] ELSE default

ignored_files_for_pylint == << >>

ignored_files_for_pydocstyle ==
    [repository \in {"fabric8-analytics-worker"} |->
        <<"tests/data/license/license.py">>]

Repositories == {"fabric8-analytics-worker", "fabric8-analytics-common"}

\* the first assignment to `remarks`, with the coverage remark put first
first_remarks_CoverageFirst(res, repository, threshold) ==
    LET source_files == res.source_files[repository]["count"]
        linter_checks == res.repo_linter_checks[repository]
        docstyle_checks == res.repo_docstyle_checks[repository]
        unit_test_coverage == res.unit_test_coverage[repository]
        linter_checks_total == linter_checks["total"]
        docstyle_checks_total == docstyle_checks["total"]
        ignored_pylint_files == Len(Get(ignored_files_for_pylint, repository, << >>))
        ignored_pydocstyle_files ==
            Len(Get(ignored_files_for_pydocstyle, repository, << >>))
    IN  remark_unit_test_coverage(unit_test_coverage, threshold)
        \o remark_linter(source_files, linter_checks_total, ignored_pylint_files,
                         linter_checks["display_results"])
        \o remark_docstyle(source_files, docstyle_checks_total,
                           ignored_pydocstyle_files,
                           docstyle_checks["display_results"])
        \o remark_linter_vs_docstyle(linter_checks_total, ignored_pylint_files,
                                     docstyle_checks_total, ignored_pydocstyle_files)

\* the first assignment to `remarks`: the four remark functions, concatenated
first_remarks(res, repository, threshold) ==
    LET source_files == res.source_files[repository]["count"]
        linter_checks == res.repo_linter_checks[repository]
        docstyle_checks == res.repo_docstyle_checks[repository]
        unit_test_coverage == res.unit_test_coverage[repository]
        linter_checks_total == linter_checks["total"]
        docstyle_checks_total == docstyle_checks["total"]
        ignored_pylint_files == Len(Get(ignored_files_for_pylint, repository, << >>))
        ignored_pydocstyle_files ==
            Len(Get(ignored_files_for_pydocstyle, repository, << >>))
    IN  remark_linter(source_files, linter_checks_total, ignored_pylint_files,
                      linter_checks["display_results"])
        \o remark_docstyle(source_files, docstyle_checks_total,
                           ignored_pydocstyle_files,
                           docstyle_checks["display_results"])
        \o remark_linter_vs_docstyle(linter_checks_total, ignored_pylint_files,
                                     docstyle_checks_total, ignored_pydocstyle_files)
        \o remark_unit_test_coverage(unit_test_coverage, threshold)

\* the remarks update_overall_status builds, in the order it appends them
overall_remarks(res, repository, threshold) ==
    LET linter_checks == res.repo_linter_checks[repository]
        docstyle_checks == res.repo_docstyle_checks[repository]
        cyclomatic_complexity == res.repo_cyclomatic_complexity[repository]
        maintainability_index == res.repo_maintainability_index[repository]
        dead_code == res.dead_code[repository]
        common_errors == res.common_errors[repository]
        ignored_pylint_files == Len(Get(ignored_files_for_pylint, repository, << >>))
        ignored_pydocstyle_files ==
            Len(Get(ignored_files_for_pydocstyle, repository, << >>))
    IN  first_remarks(res, repository, threshold)
        \o (IF linter_checks["failed"] # 0
            THEN Remark("<li>linter failed</li>") ELSE NoRemark)
        \o (IF docstyle_checks["failed"] # 0
            THEN Remark("<li>pydocstyle check failed</li>") ELSE NoRemark)
        \o (IF ignored_pylint_files # 0
            THEN IgnoredRemark("<li>{n} file{s} ignored by pylint</li>",
                               ignored_pylint_files)
            ELSE NoRemark)
        \o (IF ignored_pydocstyle_files # 0
            THEN IgnoredRemark("<li>{n} file{s} ignored by pydocstyle</li>",
                               ignored_pydocstyle_files)
            ELSE NoRemark)
        \o (IF ~cyclomatic_complexity["status"]
            THEN Remark("<li>reduce cyclomatic complexity</li>") ELSE NoRemark)
        \o (IF ~maintainability_index["status"]
            THEN Remark("<li>improve maintainability index</li>") ELSE NoRemark)
        \o dead_code_remark(dead_code)
        \o common_errors_remark(common_errors)

\* the status update_overall_status computes
overall_status(res, repository, threshold) ==
    LET linter_checks == res.repo_linter_checks[repository]
        docstyle_checks == res.repo_docstyle_checks[repository]
    IN  compute_status(res.source_files[repository]["count"],
                       linter_checks["total"],
                       Len(Get(ignored_files_for_pylint, repository, << >>)),
                       docstyle_checks["total"],
                       Len(Get(ignored_files_for_pydocstyle, repository, << >>)),
                       linter_checks, docstyle_checks,
                       res.unit_test_coverage[repository],
                       res.repo_cyclomatic_complexity[repository],
                       res.repo_maintainability_index[repository],
                       threshold,
                       res.dead_code[repository],
                       res.common_errors[repository])

\* update_overall_status that assigns new maps holding the one repository
update_overall_status_NewMaps(repository) ==
    /\ repository \in DOMAIN results.source_files
    /\ repository \notin DOMAIN results.overall_status
    /\ results' =
          [results EXCEPT
              !.overall_status =
                  Put(<< >>, repository,
                      overall_status(results, repository, code_coverage_threshold)),
              !.remarks =
                  Put(<< >>, repository,
                      overall_remarks(results, repository, code_coverage_threshold))]
    /\ UNCHANGED <<code_coverage_threshold, linterVars, radonVars, callVars, loopVars>>

\* update_overall_status(results, repository, code_coverage_threshold)
update_overall_status(repository) ==
    /\ repository \in DOMAIN results.source_files
    /\ repository \notin DOMAIN results.overall_status
    /\ results' =
          [results EXCEPT
              !.overall_status =
                  Put(@, repository,
                      overall_status(results, repository, code_coverage_threshold)),
              !.remarks =
                  Put(@, repository,
                      overall_remarks(results, repository, code_coverage_threshold))]
    /\ UNCHANGED <<code_coverage_threshold, linterVars, radonVars, callVars, loopVars>>

\* sequences over S of length at most n
SeqsUpTo(S, n) == UNION {[1..k -> S] : k \in 0..n}

\* what the tools can have written for a repository
GateLogs == SeqsUpTo({LineAPy, LinePass, LineFail}, MaxGateLines)
ToolLogs == {<< >>, <<LineAPy, LinePass>>, <<LineAPy, LineFail>>}
RadonReports == {<< >>, <<"B">>, <<"D">>}
Thresholds == {50, 80}
Coverages == {None, <<49>>, <<50>>, <<80>>}

LinterMetrics == {parse_linter_results(log) : log \in GateLogs}
ToolMetrics == {parse_linter_results(log) : log \in ToolLogs}

\* the Results object when update_overall_status is called for a repository:
\* every metric of the repository is stored, nothing is computed yet
GateInit ==
    /\ code_coverage_threshold \in Thresholds
    /\ \E repository \in Repositories :
       \E count \in 0..MaxFiles :
       \E linter \in LinterMetrics, docstyle \in LinterMetrics :
       \E cc \in RadonReports, mi \in RadonReports :
       \E dead \in ToolMetrics, common \in ToolMetrics :
       \E coverage \in Coverages :
          results =
             [source_files |-> [r \in {repository} |-> [count |-> count]],
              repo_linter_checks |-> [r \in {repository} |-> linter],
              repo_docstyle_checks |-> [r \in {repository} |-> docstyle],
              repo_cyclomatic_complexity |->
                  [r \in {repository} |-> parse_cyclomatic_complexity(cc)],
              repo_maintainability_index |->
                  [r \in {repository} |-> parse_maintainability_index(mi)],
              dead_code |-> [r \in {repository} |-> dead],
              common_errors |-> [r \in {repository} |-> common],
              unit_test_coverage |-> [r \in {repository} |-> coverage],
              overall_status |-> << >>,
              remarks |-> << >>]

-----------------------------------------------------------------------------
(* update_overall_status on every result of the dead code and common errors
   tools *)

\* every log of one of the two tools, and what the parser makes of it
AnyToolLogs == SeqsUpTo(Lines, MaxToolLines)
AnyToolMetrics == {parse_linter_results(log) : log \in AnyToolLogs}
CheckerMetrics == {parse_linter_results(<< >>), parse_linter_results(<<LineAPy, LinePass>>)}

\* the Results object when update_overall_status is called: one of the two
\* tools has written any log, the other one of ToolLogs
ToolsInit ==
    /\ code_coverage_threshold = 80
    /\ \E repository \in Repositories :
       \E count \in 0..MaxFiles :
       \E linter \in CheckerMetrics, docstyle \in CheckerMetrics :
       \E any \in AnyToolMetrics, other \in ToolMetrics, anyIsDead \in BOOLEAN :
       \E coverage \in {None, <<80>>} :
          results =
             [source_files |-> [r \in {repository} |-> [count |-> count]],
              repo_linter_checks |-> [r \in {repository} |-> linter],
              repo_docstyle_checks |-> [r \in {repository} |-> docstyle],
              repo_cyclomatic_complexity |->
                  [r \in {repository} |-> parse_cyclomatic_complexity(<< >>)],
              repo_maintainability_index |->
                  [r \in {repository} |-> parse_maintainability_index(<< >>)],
              dead_code |-> [r \in {repository} |-> IF anyIsDead THEN any ELSE other],
              common_errors |-> [r \in {repository} |-> IF anyIsDead THEN other ELSE any],
              unit_test_coverage |-> [r \in {repository} |-> coverage],
              overall_status |-> << >>,
              remarks |-> << >>]

-----------------------------------------------------------------------------
(* prepare_data_for_repositories: the loop over the repositories *)

\* the fields stored when code_quality_table_enabled, in the order of the
\* assignments
MetricFields ==
    <<"source_files", "repo_linter_checks", "repo_docstyle_checks",
      "repo_cyclomatic_complexity", "repo_maintainability_index",
      "dead_code", "common_errors">>

\* the statement after the assignment to a field
After(field) ==
    LET i == CHOOSE k \in 1..Len(MetricFields) : MetricFields[k] = field
    IN  IF i < Len(MetricFields) THEN MetricFields[i + 1] ELSE "ci_jobs"

\* what get_source_files and the parse_* functions can return for a field
StoredValues(field) ==
    CASE field = "source_files" -> {[count |-> n] : n \in 0..MaxRepoFiles}
      [] field \in {"repo_linter_checks", "repo_docstyle_checks"} -> CheckerMetrics
      [] field = "repo_cyclomatic_complexity" -> {parse_cyclomatic_complexity(<< >>)}
      [] field = "repo_maintainability_index" ->
             {parse_maintainability_index(<< >>), parse_maintainability_index(<<"C">>)}
      [] field = "dead_code" ->
             {parse_linter_results(<<LineAPy, LinePass>>),
              parse_linter_results(<<LineAPy, LineFail>>)}
      [] field = "common_errors" -> {parse_linter_results(<<LineAPy, LinePass>>)}

\* what read_unit_test_coverage can return
ReadCoverages == {None, <<50>>}

\* the lists of distinct repositories
RepositoryLists ==
    {list \in SeqsUpTo(Repositories, Cardinality(Repositories)) :
        \A i \in 1..Len(list), j \in 1..Len(list) : list[i] = list[j] => i = j}

\* Results(): no repository has a value in any field
EmptyResults ==
    [source_files |-> << >>, repo_linter_checks |-> << >>,
     repo_docstyle_checks |-> << >>, repo_cyclomatic_complexity |-> << >>,
     repo_maintainability_index |-> << >>, dead_code |-> << >>,
     common_errors |-> << >>, unit_test_coverage |-> << >>,
     overall_status |-> << >>, remarks |-> << >>]

\* the call of prepare_data_for_repositories
LoopInit ==
    /\ repositories \in RepositoryLists
    /\ code_quality_table_enabled \in BOOLEAN
    /\ ci_jobs_table_enabled \in BOOLEAN
    /\ code_coverage_threshold \in Thresholds
    /\ results = EmptyResults
    /\ position = 0
    /\ ppc = "for"

\* the repository of the current iteration
Current == repositories[position]

\* for repository in repositories: the next repository
ForRepository ==
    /\ ppc = "for"
    /\ position < Len(repositories)
    /\ position' = position + 1
    /\ ppc' = IF code_quality_table_enabled THEN MetricFields[1] ELSE "ci_jobs"
    /\ UNCHANGED <<repositories, code_quality_table_enabled, ci_jobs_table_enabled>>
    /\ UNCHANGED <<linterVars, radonVars, callVars, gateVars>>

\* the list is exhausted: log.success("Data prepared")
DataPrepared ==
    /\ ppc = "for"
    /\ position = Len(repositories)
    /\ ppc' = "done"
    /\ UNCHANGED <<repositories, code_quality_table_enabled, ci_jobs_table_enabled, position>>
    /\ UNCHANGED <<linterVars, radonVars, callVars, gateVars>>

\* results.<field>[repository] = ..., one of the seven assignments
StoreMetric ==
    /\ \E i \in 1..Len(MetricFields) : ppc = MetricFields[i]
    /\ \E value \in StoredValues(ppc) :
           results' = [results EXCEPT ![ppc] = Put(@, Current, value)]
    /\ ppc' = After(ppc)
    /\ UNCHANGED <<repositories, code_quality_table_enabled, ci_jobs_table_enabled, position>>
    /\ UNCHANGED <<code_coverage_threshold, linterVars, radonVars, callVars>>

\* if ci_jobs_table_enabled: results.unit_test_coverage[repository] = ...
StoreCoverage ==
    /\ ppc = "ci_jobs"
    /\ ci_jobs_table_enabled
    /\ \E coverage \in ReadCoverages :
           results' = [results EXCEPT !.unit_test_coverage = Put(@, Current, coverage)]
    /\ ppc' = "update_overall_status"
    /\ UNCHANGED <<repositories, code_quality_table_enabled, ci_jobs_table_enabled, position>>
    /\ UNCHANGED <<code_coverage_threshold, linterVars, radonVars, callVars>>

\* ci_jobs_table_enabled is false: nothing is read from the CI jobs
SkipCiJobs ==
    /\ ppc = "ci_jobs"
    /\ ~ci_jobs_table_enabled
    /\ ppc' = "update_overall_status"
    /\ UNCHANGED <<repositories, code_quality_table_enabled, ci_jobs_table_enabled, position>>
    /\ UNCHANGED <<linterVars, radonVars, callVars, gateVars>>

\* if code_quality_table_enabled: update_overall_status(results, repository, ...)
CallUpdateOverallStatus ==
    /\ ppc = "update_overall_status"
    /\ code_quality_table_enabled
    /\ Current \in DOMAIN results.unit_test_coverage
    /\ update_overall_status(Current)

\* results.unit_test_coverage[repository] in update_overall_status, when
\* nothing was stored for the repository
RaiseKeyError ==
    /\ ppc = "update_overall_status"
    /\ code_quality_table_enabled
    /\ Current \notin DOMAIN results.unit_test_coverage
    /\ ppc' = "KeyError"
    /\ UNCHANGED <<repositories, code_quality_table_enabled, ci_jobs_table_enabled, position>>
    /\ UNCHANGED <<linterVars, radonVars, callVars, gateVars>>

\* the end of the loop's body: update_overall_status has returned, or
\* code_quality_table_enabled is false
EndOfBody ==
    /\ ppc = "update_overall_status"
    /\ code_quality_table_enabled => Current \in DOMAIN results.overall_status
    /\ ppc' = "for"
    /\ UNCHANGED <<repositories, code_quality_table_enabled, ci_jobs_table_enabled, position>>
    /\ UNCHANGED <<linterVars, radonVars, callVars, gateVars>>

-----------------------------------------------------------------------------
(* compute_status called on its own *)

StatusInit ==
    /\ call \in [fn : {"compute_status"},
                 source_files : 0..MaxFiles,
                 linter_checks_total : 0..MaxFiles,
                 ignored_pylint_files : 0..MaxIgnored,
                 docstyle_checks_total : 0..MaxFiles,
                 ignored_pydocstyle_files : 0..MaxIgnored,
                 linter_checks : [failed : {0, 1}],
                 docstyle_checks : [failed : {0, 1}],
                 unit_test_coverage : Coverages,
                 cyclomatic_complexity : [status : BOOLEAN],
                 maintainability_index : [status : BOOLEAN],
                 code_coverage_threshold : Thresholds,
                 dead_code : [failed : {0, 1}],
                 common_errors : [failed : {0, 1}]]
    /\ ret = << >>

CallComputeStatus ==
    /\ call.fn = "compute_status"
    /\ ret = << >>
    /\ ret' = <<compute_status(call.source_files, call.linter_checks_total,
                               call.ignored_pylint_files,
                               call.docstyle_checks_total,
                               call.ignored_pydocstyle_files,
                               call.linter_checks, call.docstyle_checks,
                               call.unit_test_coverage,
                               call.cyclomatic_complexity,
                               call.maintainability_index,
                               call.code_coverage_threshold,
                               call.dead_code, call.common_errors)>>
    /\ UNCHANGED <<call, linterVars, radonVars, gateVars, loopVars>>

-----------------------------------------------------------------------------
(* remark_linter or remark_docstyle together with compute_status, as
   update_overall_status calls them on the same counts *)

CheckedInit ==
    /\ call \in [fn : {"remark_linter", "remark_docstyle"},
                 source_files : 0..MaxCheckedFiles,
                 checks_total : 0..MaxCheckedFiles,
                 ignored_files : 0..MaxIgnoredFiles,
                 display_results : BOOLEAN,
                 other_total : 0..MaxCheckedFiles,
                 failed : {0, 1},
                 code_coverage_threshold : Thresholds]
    /\ ret = << >>

\* the checker named by call.fn gets the counts of the call; the other
\* checker has other_total files and no ignored file; nothing else fails
CallCheckedRemark ==
    /\ call.fn \in {"remark_linter", "remark_docstyle"}
    /\ ret = << >>
    /\ ret' =
          <<IF call.fn = "remark_linter"
            THEN [remark |-> remark_linter(call.source_files, call.checks_total,
                                           call.ignored_files, call.display_results),
                  status |-> compute_status(call.source_files, call.checks_total,
                                            call.ignored_files, call.other_total, 0,
                                            [failed |-> call.failed], [failed |-> 0],
                                            None, [status |-> TRUE], [status |-> TRUE],
                                            call.code_coverage_threshold,
                                            [failed |-> 0], [failed |-> 0])]
            ELSE [remark |-> remark_docstyle(call.source_files, call.checks_total,
                                             call.ignored_files, call.display_results),
                  status |-> compute_status(call.source_files, call.other_total, 0,
                                            call.checks_total, call.ignored_files,
                                            [failed |-> 0], [failed |-> call.failed],
                                            None, [status |-> TRUE], [status |-> TRUE],
                                            call.code_coverage_threshold,
                                            [failed |-> 0], [failed |-> 0])]>>
    /\ UNCHANGED <<call, linterVars, radonVars, gateVars, loopVars>>

-----------------------------------------------------------------------------
(* Specifications *)

InitLinter == LinterInit /\ LoopIdle /\ RadonIdle /\ CallIdle /\ GateIdle
NextLinter ==
    \/ \E raw \in Lines : ReadLine(raw)
    \/ LinterReturn
SpecLinter == InitLinter /\ [][NextLinter]_vars

InitRadon == RadonInit /\ LoopIdle /\ LinterIdle /\ CallIdle /\ GateIdle
NextRadon ==
    \/ \E rank \in Ranks : CountRank(rank)
    \/ RadonReturn
SpecRadon == InitRadon /\ [][NextRadon]_vars

InitPercentage == PercentageInit /\ LoopIdle /\ LinterIdle /\ RadonIdle /\ GateIdle
NextPercentage == CallPercentage
SpecPercentage == InitPercentage /\ [][NextPercentage]_vars

InitStatus == StatusInit /\ LoopIdle /\ LinterIdle /\ RadonIdle /\ GateIdle
NextStatus == CallComputeStatus
SpecStatus == InitStatus /\ [][NextStatus]_vars

InitGate == GateInit /\ LoopIdle /\ LinterIdle /\ RadonIdle /\ CallIdle
NextGate == \E repository \in Repositories : update_overall_status(repository)
SpecGate == InitGate /\ [][NextGate]_vars

InitTools == ToolsInit /\ LoopIdle /\ LinterIdle /\ RadonIdle /\ CallIdle
NextTools == \E repository \in Repositories : update_overall_status(repository)
SpecTools == InitTools /\ [][NextTools]_vars

InitLoop == LoopInit /\ LinterIdle /\ RadonIdle /\ CallIdle
NextLoop ==
    \/ ForRepository
    \/ DataPrepared
    \/ StoreMetric
    \/ StoreCoverage
    \/ SkipCiJobs
    \/ CallUpdateOverallStatus
    \/ RaiseKeyError
    \/ EndOfBody
SpecLoop == InitLoop /\ [][NextLoop]_vars

InitChecked == CheckedInit /\ LoopIdle /\ LinterIdle /\ RadonIdle /\ GateIdle
NextChecked == CallCheckedRemark
SpecChecked == InitChecked /\ [][NextChecked]_vars

-----------------------------------------------------------------------------
(* Reading of a log, independent of the parser's locals *)

\* the lines of each kind: what a line is once its trailing blanks are cut
FileMarkerLines == {raw \in Lines : EndsWith(RStrip(raw), PySuffix)}
PassMarkerLines == {raw \in Lines : EndsWith(RStrip(raw), PassSuffix)}
FailMarkerLines == {raw \in Lines : EndsWith(RStrip(raw), FailSuffix)}

IsFileMarker(raw) == raw \in FileMarkerLines
IsPassMarker(raw) == raw \in PassMarkerLines
IsFailMarker(raw) == raw \in FailMarkerLines

Largest(S) == CHOOSE j \in S : \A k \in S : k <= j

\* position of the file marker that most recently precedes line i, 0 if none
LastFileMarker(i) ==
    LET before == {j \in 1..(i - 1) : IsFileMarker(fin[j])}
    IN  IF before = {} THEN 0 ELSE Largest(before)

\* the file a marker at line i belongs to
FileOf(i) == Strip(fin[LastFileMarker(i)])

AttributedPass ==
    {i \in 1..Len(fin) : IsPassMarker(fin[i]) /\ LastFileMarker(i) # 0}
AttributedFail ==
    {i \in 1..Len(fin) : IsFailMarker(fin[i]) /\ LastFileMarker(i) # 0}
Attributed == AttributedPass \cup AttributedFail

\* the pass/fail markers that stand before every file marker
Orphans ==
    {i \in 1..Len(fin) :
        /\ IsPassMarker(fin[i]) \/ IsFailMarker(fin[i])
        /\ LastFileMarker(i) = 0}

MarkersOf(f) == {i \in Attributed : FileOf(i) = f}

\* the integer a string of digits denotes
RECURSIVE IntOf(_)
IntOf(s) ==
    IF s = << >> THEN 0
    ELSE 10 * IntOf(SubSeq(s, 1, Len(s) - 1))
         + (CHOOSE d \in 0..9 : Digit(d) = s[Len(s)])

-----------------------------------------------------------------------------
(* Claims about parse_linter_results *)

\* C3: every pass/fail marker is attributed to the file marker that most
\* recently preceded it; a marker before any file marker changes nothing:
\* the counters count the attributed markers only, the file map holds the
\* files of the attributed markers only, and a log whose markers all precede
\* the first file marker gives total = passed = failed = 0.
C3_MarkerAttribution ==
    /\ total = Cardinality(Attributed)
    /\ DOMAIN files = {FileOf(i) : i \in Attributed}
    /\ \A i \in AttributedPass :
          i = Largest(MarkersOf(FileOf(i))) => files[FileOf(i)] = TRUE
    /\ \A i \in AttributedFail :
          i = Largest(MarkersOf(FileOf(i))) => files[FileOf(i)] = FALSE
    /\ Attributed = {} =>
          /\ total = 0 /\ passed = 0 /\ failed = 0 /\ files = << >>
          /\ lpc = "done" =>
                /\ metric[1].total = 0
                /\ metric[1].passed = 0
                /\ metric[1].failed = 0

\* a returned parse of a log that starts with a pass/fail marker, goes on
\* with a file marker and has a marker attributed to that file
C3_Witness ==
    /\ lpc = "done"
    /\ 1 \in Orphans
    /\ Attributed # {}
    /\ total < Cardinality(Orphans \cup Attributed)

\* a returned parse of a log whose markers all precede the first file marker
C3_WitnessOrphansOnly ==
    /\ lpc = "done"
    /\ Orphans # {}
    /\ Attributed = {}
    /\ source # None

\* C4: total = passed + failed after every processed line, and in the
\* returned dictionary.
C4_TotalIsSum ==
    /\ total = passed + failed
    /\ lpc = "done" => metric[1].total = metric[1].passed + metric[1].failed

C4_Witness ==
    /\ lpc = "done"
    /\ metric[1].passed > 0
    /\ metric[1].failed > 0

\* C5: the counters count marker occurrences, not files: passed and failed
\* are the numbers of attributed pass and fail markers, the map keeps for
\* each file the value of its last marker, the number of files in the map is
\* at most total and is smaller exactly when some file has more than one
\* marker; three files with two Pass and one Fail give 3, 2, 1 and "33".
C5_CountsMarkerOccurrences ==
    /\ passed = Cardinality(AttributedPass)
    /\ failed = Cardinality(AttributedFail)
    /\ total = Cardinality(Attributed)
    /\ \A f \in DOMAIN files : files[f] = (Largest(MarkersOf(f)) \in AttributedPass)
    /\ Cardinality(DOMAIN files) <= total
    /\ Cardinality(DOMAIN files) < total
          <=> \E f \in DOMAIN files : Cardinality(MarkersOf(f)) > 1
    /\ (/\ lpc = "done"
        /\ Cardinality(DOMAIN files) = 3
        /\ Cardinality(AttributedPass) = 2
        /\ Cardinality(AttributedFail) = 1)
          => /\ metric[1].total = 3
             /\ metric[1].passed = 2
             /\ metric[1].failed = 1
             /\ metric[1].failed_pct = <<"3", "3">>

\* a returned parse in which one file got a Pass and later a Fail
C5_Witness ==
    /\ lpc = "done"
    /\ \E f \in DOMAIN files :
          /\ Cardinality(MarkersOf(f)) > 1
          /\ MarkersOf(f) \cap AttributedPass # {}
          /\ files[f] = FALSE
    /\ Cardinality(DOMAIN metric[1].files) < metric[1].total

\* the scenario of three files, two Pass and one Fail
C5_WitnessScenario ==
    /\ lpc = "done"
    /\ Cardinality(DOMAIN files) = 3
    /\ metric[1].passed = 2
    /\ metric[1].failed = 1

\* C6 as amended: display_results is false exactly when the file map is
\* empty, which is exactly when no pass/fail marker was counted (total = 0);
\* a log with file markers and no counted marker gives display_results
\* false, so display_results true with total 0 is never returned.
C6_DisplayResultsIffCounted ==
    lpc = "done" =>
        /\ metric[1].display_results = (metric[1].files # << >>)
        /\ metric[1].display_results = (metric[1].total > 0)
        /\ metric[1].display_results = (Attributed # {})

\* a returned parse of a log with a file marker and no counted marker
C6_Witness ==
    /\ lpc = "done"
    /\ \E i \in 1..Len(fin) : IsFileMarker(fin[i])
    /\ metric[1].total = 0
    /\ ~metric[1].display_results

\* C6 as stated: a log in which file markers are recognised and no pass/fail
\* marker is counted returns display_results true with total 0, and
\* display_results is false only for a log without file entries.
C6_Original ==
    lpc = "done" =>
        /\ (/\ \E i \in 1..Len(fin) : IsFileMarker(fin[i])
            /\ Attributed = {})
              => (metric[1].display_results /\ metric[1].total = 0)
        /\ ~metric[1].display_results
              => ~\E i \in 1..Len(fin) : IsFileMarker(fin[i])

-----------------------------------------------------------------------------
(* Claims about the radon parsers *)

\* how often a rank letter occurs in the report read so far
Occurrences(rank) == Cardinality({i \in 1..Len(data) : data[i] = rank})

\* the rank letters of each tool's scale
Scale(t) == IF t = "cc" THEN {"A", "B", "C", "D", "E", "F"} ELSE {"A", "B", "C"}

\* C7: the status of a rank metric is a function of its counts, with a bad
\* rank set per scale: maintainability index is true exactly when B and C
\* count zero, cyclomatic complexity exactly when D, E and F count zero; a
\* rank absent from the input counts zero.
C7_RankStatus ==
    rpc = "done" =>
        /\ \A rank \in DOMAIN prepare_radon_results :
              radon[rank] = Occurrences(rank)
        /\ tool = "mi" =>
              radon["status"] = (Occurrences("B") = 0 /\ Occurrences("C") = 0)
        /\ tool = "cc" =>
              radon["status"] = (/\ Occurrences("D") = 0
                                 /\ Occurrences("E") = 0
                                 /\ Occurrences("F") = 0)

\* a cyclomatic-complexity report with blocks ranked B and C and status true
C7_Witness ==
    /\ rpc = "done"
    /\ tool = "cc"
    /\ radon["B"] > 0
    /\ radon["C"] > 0
    /\ radon["A"] = 0
    /\ radon["status"]

\* a maintainability report with a module ranked B and status false
C7_WitnessMi ==
    /\ rpc = "done"
    /\ tool = "mi"
    /\ radon["B"] > 0
    /\ ~radon["status"]

\* C8: a rank letter outside the parser's scale (A..F for cyclomatic
\* complexity, A..C for the maintainability index) makes the parse fail: no
\* report holding such a letter is returned as a metric.
C8_OffScaleRankFails ==
    rpc = "done" => \A i \in 1..Len(data) : data[i] \in Scale(tool)

-----------------------------------------------------------------------------
(* Claims about percentage *)

\* C10: for non-negative p, f with p + f > 0 the integer values of
\* percentage(f, p) and percentage(p, f) add up to a value within 1 of 100,
\* and percentage(0, 0) is "0".
C10_PercentagesComplementary ==
    ret # << >> =>
        LET p == call.part1
            f == call.part2
            sum == IntOf(ret[1]) + IntOf(percentage(f, p))
        IN  /\ p + f > 0 => (99 <= sum /\ sum <= 101)
            /\ (p = 0 /\ f = 0) => ret[1] = <<"0">>

\* a call whose exact percentage ends in .5, so that the rounding decides
C10_Witness ==
    /\ ret # << >>
    /\ call.part1 + call.part2 > 0
    /\ 2 * ((100 * call.part2) % (call.part1 + call.part2))
          = call.part1 + call.part2
    /\ IntOf(ret[1]) + IntOf(percentage(call.part2, call.part1)) = 100

\* the call percentage(0, 0)
C10_WitnessZero ==
    /\ ret = <<(<<"0">>)>>
    /\ call.part1 = 0
    /\ call.part2 = 0

-----------------------------------------------------------------------------
(* Claims about compute_status *)

\* the nine gate conditions on the arguments of the call, by number
GateCondition(k) ==
    CASE k = 1 -> call.source_files
                      = call.linter_checks_total + call.ignored_pylint_files
      [] k = 2 -> call.source_files
                      = call.docstyle_checks_total + call.ignored_pydocstyle_files
      [] k = 3 -> call.linter_checks.failed = 0
      [] k = 4 -> call.docstyle_checks.failed = 0
      [] k = 5 -> \/ call.unit_test_coverage = None
                  \/ call.unit_test_coverage[1] >= call.code_coverage_threshold
      [] k = 6 -> call.cyclomatic_complexity.status
      [] k = 7 -> call.maintainability_index.status
      [] k = 8 -> call.dead_code.failed = 0
      [] k = 9 -> call.common_errors.failed = 0

FailingConditions == {k \in 1..9 : ~GateCondition(k)}

\* C1: compute_status returns true if and only if the nine conditions hold
\* together; one false condition with the other eight true gives false.
C1_GateIffAllNine ==
    ret # << >> =>
        /\ ret[1] = (\A k \in 1..9 : GateCondition(k))
        /\ Cardinality(FailingConditions) = 1 => ret[1] = FALSE

\* a call in which only the dead code condition fails
C1_Witness ==
    /\ ret = <<FALSE>>
    /\ FailingConditions = {8}

\* each single condition is failed alone by some call
C1_WitnessCoverage ==
    /\ ret = <<FALSE>>
    /\ FailingConditions = {5}

\* a call with unknown coverage and ignored files that passes the gate
C1_WitnessTrue ==
    /\ ret = <<TRUE>>
    /\ call.unit_test_coverage = None
    /\ call.ignored_pylint_files > 0
    /\ call.source_files > call.docstyle_checks_total

-----------------------------------------------------------------------------
(* Claims about update_overall_status *)

Text(piece) == piece[1]

\* the texts of each remark rule, in the order of priority
RemarkRules ==
    << {"<li>linter is not setup</li>",
        "<li>not all source files are checked by linter</li>"},
       {"<li>docstyle checker is not setup</li>",
        "<li>not all source files are checked by pydocstyle</li>"},
       {", linter checked {n1} files, but pydocstyle checked {n2} files"},
       {"<li>improve code coverage</li>",
        "<li>unit tests has not been setup</li>"},
       {"<li>linter failed</li>"},
       {"<li>pydocstyle check failed</li>"},
       {"<li>{n} file{s} ignored by pylint</li>"},
       {"<li>{n} file{s} ignored by pydocstyle</li>"},
       {"<li>reduce cyclomatic complexity</li>"},
       {"<li>improve maintainability index</li>"},
       {"<li>remove dead code</li>",
        "<li>setup dead code detection tool</li>"},
       {"<li>fix common errors</li>",
        "<li>setup common errors detection tool</li>"} >>

\* the rules that a failing gate condition has to trigger, by condition
RulesOfCondition == <<{1}, {2}, {5}, {6}, {4}, {9}, {10}, {11}, {12}>>

\* the gate conditions on the stored record of a repository, by number
SnapshotCondition(r, k) ==
    LET ignored_pylint == IF r \in DOMAIN ignored_files_for_pylint
                          THEN Len(ignored_files_for_pylint[r]) ELSE 0
        ignored_pydocstyle == IF r \in DOMAIN ignored_files_for_pydocstyle
                              THEN Len(ignored_files_for_pydocstyle[r]) ELSE 0
        coverage == results.unit_test_coverage[r]
    IN  CASE k = 1 -> results.source_files[r].count
                          = results.repo_linter_checks[r].total + ignored_pylint
          [] k = 2 -> results.source_files[r].count
                          = results.repo_docstyle_checks[r].total + ignored_pydocstyle
          [] k = 3 -> results.repo_linter_checks[r].failed = 0
          [] k = 4 -> results.repo_docstyle_checks[r].failed = 0
          [] k = 5 -> coverage = None \/ coverage[1] >= code_coverage_threshold
          [] k = 6 -> results.repo_cyclomatic_complexity[r]["status"]
          [] k = 7 -> results.repo_maintainability_index[r]["status"]
          [] k = 8 -> results.dead_code[r].failed = 0
          [] k = 9 -> results.common_errors[r].failed = 0

HasRemarkOf(r, rules) ==
    \E i \in 1..Len(results.remarks[r]) :
        \E rule \in rules : Text(results.remarks[r][i]) \in RemarkRules[rule]

\* C2: for every finalized repository, overall_status false implies that
\* the remarks are not empty: every failing gate condition has a remark of
\* its rule among them.
C2_FailedGateHasRemarks ==
    \A r \in DOMAIN results.overall_status :
        /\ ~results.overall_status[r] => results.remarks[r] # << >>
        /\ \A k \in 1..9 :
              ~SnapshotCondition(r, k) => HasRemarkOf(r, RulesOfCondition[k])

\* a finalized repository that fails the gate on dead code alone and has
\* the dead code remark as its only remark
C2_Witness ==
    \E r \in DOMAIN results.overall_status :
        /\ ~results.overall_status[r]
        /\ \A k \in 1..9 : SnapshotCondition(r, k) <=> k # 8
        /\ results.remarks[r] = Remark("<li>remove dead code</li>")

\* the rule a remark belongs to
RuleOf(piece) == CHOOSE rule \in 1..Len(RemarkRules) : Text(piece) \in RemarkRules[rule]

\* C9: the remarks are the outputs of the remark rules in the fixed order
\* of priority: every piece is a remark of one rule, each rule gives at most
\* one, and the pieces stand in the order of their rules.
C9_RemarksInPriorityOrder ==
    \A r \in DOMAIN results.remarks :
        LET remarks == results.remarks[r]
        IN  /\ \A i \in 1..Len(remarks) :
                  \E rule \in 1..Len(RemarkRules) : Text(remarks[i]) \in RemarkRules[rule]
            /\ \A i, j \in 1..Len(remarks) :
                  i < j => RuleOf(remarks[i]) < RuleOf(remarks[j])

\* a finalized repository with a remark of every rule that can fire for it
C9_Witness ==
    \E r \in DOMAIN results.remarks :
        /\ Len(results.remarks[r]) = 11
        /\ RuleOf(results.remarks[r][3]) = 3
        /\ RuleOf(results.remarks[r][4]) = 4

-----------------------------------------------------------------------------
(* Claims about the progress bar of a linter metric *)

\* the value a progress bar mapping was applied to
ArgumentOf(term) == term[2]

\* C11 as amended: in every returned metric the one value given to the
\* progress bar class and width mappings is the metric's passed% value, the
\* share of the attributed Pass markers among the attributed markers; it
\* is the failed% value only when the two percentages are the same string.
C11_ProgressBarFromPassedPct ==
    lpc = "done" =>
        LET m == metric[1]
        IN  /\ ArgumentOf(m.progress_bar_class) = m.passed_pct
            /\ ArgumentOf(m.progress_bar_width) = m.passed_pct
            /\ m.progress_bar_class[1] = "progress_bar_class"
            /\ m.progress_bar_width[1] = "progress_bar_width"
            /\ m.passed_pct = percentage(Cardinality(AttributedFail),
                                         Cardinality(AttributedPass))
            /\ m.passed_pct # m.failed_pct =>
                  ArgumentOf(m.progress_bar_class) # m.failed_pct

\* a returned metric with two Pass and one Fail: passed% "67", failed% "33"
C11_Witness ==
    /\ lpc = "done"
    /\ metric[1].passed = 2
    /\ metric[1].failed = 1
    /\ ArgumentOf(metric[1].progress_bar_class) = <<"6", "7">>
    /\ metric[1].failed_pct = <<"3", "3">>

\* C11 as stated: the value given to the progress bar class and width
\* mappings equals the metric's failed% value.
C11_Original ==
    lpc = "done" =>
        /\ ArgumentOf(metric[1].progress_bar_class) = metric[1].failed_pct
        /\ ArgumentOf(metric[1].progress_bar_width) = metric[1].failed_pct

-----------------------------------------------------------------------------
(* Claims about the coverage-of-files remarks *)

NotSetUpText ==
    IF call.fn = "remark_linter" THEN "<li>linter is not setup</li>"
    ELSE "<li>docstyle checker is not setup</li>"

NotAllCheckedText ==
    IF call.fn = "remark_linter"
    THEN "<li>not all source files are checked by linter</li>"
    ELSE "<li>not all source files are checked by pydocstyle</li>"

AllFilesChecked == call.source_files = call.checks_total + call.ignored_files

\* every gate condition but the one on the checker's files holds
OtherConditionsHold == call.source_files = call.other_total /\ call.failed = 0

\* C12: the coverage-of-files remark of the linter, and likewise of the
\* docstyle checker, is one of three: "not set up" when display_results is
\* false, else "not all source files are checked" when the source files
\* differ from the checked plus the ignored files, else none.  With 10
\* source files and 8 checked ones, 2 ignored files give no remark and a
\* true status when nothing else fails, no ignored file gives the remark
\* and a false status.
C12_CoverageRemarkThreeWay ==
    (ret # << >> /\ call.fn \in {"remark_linter", "remark_docstyle"}) =>
        LET remark == ret[1].remark
            status == ret[1].status
        IN  /\ ~call.display_results => remark = <<(<<NotSetUpText>>)>>
            /\ (call.display_results /\ ~AllFilesChecked)
                  => remark = <<(<<NotAllCheckedText>>)>>
            /\ (call.display_results /\ AllFilesChecked) => remark = << >>
            /\ ~AllFilesChecked => ~status
            /\ (/\ call.source_files = 10
                /\ call.checks_total = 8
                /\ call.display_results
                /\ call.ignored_files = 2)
                  => (remark = << >> /\ (OtherConditionsHold => status))
            /\ (/\ call.source_files = 10
                /\ call.checks_total = 8
                /\ call.display_results
                /\ call.ignored_files = 0)
                  => (remark = <<(<<NotAllCheckedText>>)>> /\ ~status)

\* 10 source files, 8 checked by the linter, 2 ignored, nothing else fails
C12_Witness ==
    /\ ret # << >>
    /\ call.fn = "remark_linter"
    /\ call.source_files = 10
    /\ call.checks_total = 8
    /\ call.ignored_files = 2
    /\ call.display_results
    /\ OtherConditionsHold
    /\ ret[1].remark = << >>
    /\ ret[1].status

\* 10 source files, 8 checked by the linter, none ignored
C12_WitnessNotAll ==
    /\ ret # << >>
    /\ call.fn = "remark_linter"
    /\ call.source_files = 10
    /\ call.checks_total = 8
    /\ call.ignored_files = 0
    /\ call.display_results
    /\ OtherConditionsHold
    /\ ret[1].remark = Remark("<li>not all source files are checked by linter</li>")
    /\ ~ret[1].status

-----------------------------------------------------------------------------
(* Claims about the coverage remark *)

\* the texts of the remarks stored for a repository
TextsOf(r) == {Text(results.remarks[r][i]) : i \in 1..Len(results.remarks[r])}

\* C13: the coverage remark is one of three: "improve code coverage" when
\* the coverage is known and below the threshold, "unit tests has not been
\* setup" when it is unknown, none when it is known and reaches the
\* threshold.  An unknown coverage passes the gate: a repository whose other
\* eight conditions hold has a true status and still has the remark.
C13_CoverageRemarkThreeWay ==
    \A r \in DOMAIN results.remarks :
        LET coverage == results.unit_test_coverage[r]
            improve == "<li>improve code coverage</li>" \in TextsOf(r)
            notSetUp == "<li>unit tests has not been setup</li>" \in TextsOf(r)
        IN  /\ (coverage # None /\ coverage[1] < code_coverage_threshold)
                  => (improve /\ ~notSetUp)
            /\ coverage = None => (notSetUp /\ ~improve)
            /\ (coverage # None /\ coverage[1] >= code_coverage_threshold)
                  => (~improve /\ ~notSetUp)
            /\ (/\ coverage = None
                /\ \A k \in (1..9) \ {5} : SnapshotCondition(r, k))
                  => (results.overall_status[r] /\ notSetUp)

\* a finalized repository of unknown coverage that passes the gate and has
\* the remark on the unit tests as its only remark
C13_Witness ==
    \E r \in DOMAIN results.remarks :
        /\ results.unit_test_coverage[r] = None
        /\ results.overall_status[r]
        /\ results.source_files[r].count > 0
        /\ results.remarks[r] = Remark("<li>unit tests has not been setup</li>")

\* a finalized repository whose coverage is below the threshold
C13_WitnessImprove ==
    \E r \in DOMAIN results.remarks :
        /\ results.unit_test_coverage[r] = <<49>>
        /\ code_coverage_threshold = 50
        /\ ~results.overall_status[r]
        /\ results.remarks[r] = Remark("<li>improve code coverage</li>")

-----------------------------------------------------------------------------
(* Claims about the dead code and common errors remarks *)

\* the remark of a tool is one of three, and a failure fails the gate
ToolRemarkThreeWay(r, tool_metric, setUpText, fixText) ==
    /\ ~tool_metric.display_results
          => (setUpText \in TextsOf(r) /\ fixText \notin TextsOf(r))
    /\ (tool_metric.display_results /\ tool_metric.failed # 0)
          => /\ fixText \in TextsOf(r)
             /\ setUpText \notin TextsOf(r)
             /\ ~results.overall_status[r]
    /\ (tool_metric.display_results /\ tool_metric.failed = 0)
          => (setUpText \notin TextsOf(r) /\ fixText \notin TextsOf(r))
    /\ tool_metric.failed # 0 => setUpText \notin TextsOf(r)

\* C14: the dead code remark is "setup dead code detection tool" when the
\* tool has no results to display, "remove dead code" when it ran and found
\* failures, and then the status is false, and none when it ran without
\* failures; the common errors remark follows the same pattern; for a metric
\* of the parser a failure never comes with the remark to set the tool up.
C14_ToolRemarkThreeWay ==
    \A r \in DOMAIN results.remarks :
        /\ ToolRemarkThreeWay(r, results.dead_code[r],
                              "<li>setup dead code detection tool</li>",
                              "<li>remove dead code</li>")
        /\ ToolRemarkThreeWay(r, results.common_errors[r],
                              "<li>setup common errors detection tool</li>",
                              "<li>fix common errors</li>")

\* a finalized repository with two dead code failures in one file, which is
\* told to remove dead code and has no other remark
C14_Witness ==
    \E r \in DOMAIN results.remarks :
        /\ results.dead_code[r].display_results
        /\ results.dead_code[r].failed = 2
        /\ results.dead_code[r].passed = 0
        /\ ~results.overall_status[r]
        /\ results.remarks[r] = Remark("<li>remove dead code</li>")

\* a finalized repository whose tools ran without failures, and one whose
\* tools did not run
C14_WitnessClean ==
    \E r \in DOMAIN results.remarks :
        /\ results.dead_code[r].display_results
        /\ results.dead_code[r].failed = 0
        /\ results.common_errors[r].display_results
        /\ results.common_errors[r].failed = 0
        /\ results.overall_status[r]
        /\ results.remarks[r] = NoRemark

C14_WitnessNotSetUp ==
    \E r \in DOMAIN results.remarks :
        /\ ~results.dead_code[r].display_results
        /\ ~results.common_errors[r].display_results
        /\ results.dead_code[r].total = 0
        /\ "<li>setup dead code detection tool</li>" \in TextsOf(r)
        /\ "<li>setup common errors detection tool</li>" \in TextsOf(r)

-----------------------------------------------------------------------------
(* Claims about the loop over the repositories *)

StoredFields ==
    {MetricFields[i] : i \in 1..Len(MetricFields)} \cup {"unit_test_coverage"}
DerivedFields == {"overall_status", "remarks"}

\* what a Results object holds for a repository, field by field
RecordIn(res, r) ==
    [f \in StoredFields \cup DerivedFields |->
        IF r \in DOMAIN res[f] THEN <<res[f][r]>> ELSE << >>]

\* a Results object that holds the stored fields of one repository only
OwnMetrics(res, r) == [f \in StoredFields |-> [q \in {r} |-> res[f][r]]]

IsFinalized(res, r) == r \in DOMAIN res.overall_status \/ r \in DOMAIN res.remarks

\* the status and the remarks of a finalized repository are those of its own
\* metrics, the ignore lists and the threshold
DerivedFromOwnMetrics ==
    \A r \in Repositories :
        IsFinalized(results, r) =>
            /\ r \in DOMAIN results.overall_status
            /\ r \in DOMAIN results.remarks
            /\ results.overall_status[r] =
                  overall_status(OwnMetrics(results, r), r, code_coverage_threshold)
            /\ results.remarks[r] =
                  overall_remarks(OwnMetrics(results, r), r, code_coverage_threshold)
            /\ results.overall_status[r] = (\A k \in 1..9 : SnapshotCondition(r, k))

\* a step that finalizes a repository starts with all of its fields stored
\* and changes nothing but its status and its remarks
FinalizingStep ==
    \A r \in Repositories :
        (~IsFinalized(results, r) /\ IsFinalized(results', r)) =>
            /\ \A f \in StoredFields : r \in DOMAIN results[f]
            /\ \A f \in StoredFields : results'[f] = results[f]
            /\ \A q \in Repositories \ {r} : RecordIn(results', q) = RecordIn(results, q)
            /\ code_coverage_threshold' = code_coverage_threshold

\* no step changes the record of a finalized repository
FinalizedIsFrozen ==
    \A r \in Repositories :
        IsFinalized(results, r) => RecordIn(results', r) = RecordIn(results, r)

\* C15: over a list of distinct repositories, update_overall_status runs for
\* a repository after all of its metric fields are stored, writes only the
\* repository's overall_status and remarks, leaves every metric field and
\* every other repository's record as they were, and no later step changes
\* the record of a finalized repository; the status and the remarks are a
\* function of the repository's own metrics, the two ignore lists and the
\* threshold.
C15_FinalizationFrame ==
    /\ []DerivedFromOwnMetrics
    /\ [][FinalizingStep /\ FinalizedIsFrozen]_vars

\* both repositories are processed and finalized, with different outcomes
C15_Witness ==
    /\ ppc = "done"
    /\ Len(repositories) = 2
    /\ \A r \in Repositories : IsFinalized(results, r)
    /\ results.overall_status[repositories[1]]
    /\ ~results.overall_status[repositories[2]]
    /\ results.remarks[repositories[1]] # results.remarks[repositories[2]]

\* the second repository is half stored while the first one is finalized
C15_WitnessLater ==
    /\ position = 2
    /\ ppc = "dead_code"
    /\ IsFinalized(results, repositories[1])
    /\ ~IsFinalized(results, repositories[2])

====
